---- MODULE Spec2Model ----
(***************************************************************************)
(* A model of tools/generate_from_schema.py: the translator from Redfish / *)
(* Swordfish JSON Schema documents to the template parameters (classes and *)
(* enums) of the Go source generator.                                      *)
(*                                                                         *)
(* Python strings are TLA+ strings; a character is a string of length 1.   *)
(* JSON values are tagged records ([kind |-> ..., val |-> ...]); a JSON    *)
(* object with free keys (properties, definitions, enumDescriptions) is a  *)
(* sequence of [k |-> key, v |-> value] pairs in document order, which is  *)
(* the iteration order of a Python dict.                                   *)
(***************************************************************************)
EXTENDS Integers, Sequences, FiniteSets, TLC

VARIABLES
    pc,           \* the place in main(), or in the one function a specification applies
    args,         \* the parsed command line: [object, type]
    url,          \* main's url
    data,         \* the response to the first requests.get
    base_data,    \* the parsed stub document
    object_data,  \* the parsed concrete document
    pos,          \* the index of the definition the classification loop is at
    params,       \* the template parameters being built
    rendered,     \* what template.render was called with, Absent before
    faults,       \* history: the failed fetches and unparsable bodies so far
    name, obj,    \* the arguments of the function a specification applies
    result        \* its return value

vars == <<pc, args, url, data, base_data, object_data, pos, params, rendered,
          faults, name, obj, result>>

(***************************************************************************)
(* Characters and Python's str methods                                     *)
(***************************************************************************)

\* The printable ASCII characters in code point order: " " (32) to "_" (95)
\* and "a" (97) to "~" (126). The grave accent (96) cannot be written in a
\* TLA+ string; no modelled input holds one.
AsciiLo == " !\"#$%&'()*+,-./0123456789:;<=>?@ABCDEFGHIJKLMNOPQRSTUVWXYZ[\\]^_"
AsciiHi == "abcdefghijklmnopqrstuvwxyz{|}~"

CharAt(s, i) == SubSeq(s, i, i)

\* the code point of every character, and the character of every code point
OrdTable ==
    [c \in {CharAt(AsciiLo, i) : i \in 1..Len(AsciiLo)}
            \cup {CharAt(AsciiHi, i) : i \in 1..Len(AsciiHi)} |->
        IF \E i \in 1..Len(AsciiLo) : CharAt(AsciiLo, i) = c
        THEN 31 + (CHOOSE i \in 1..Len(AsciiLo) : CharAt(AsciiLo, i) = c)
        ELSE 96 + (CHOOSE i \in 1..Len(AsciiHi) : CharAt(AsciiHi, i) = c)]

\* ord(c)
Ord(c) == OrdTable[c]

\* chr(n)
Chr(n) == IF n <= 95 THEN CharAt(AsciiLo, n - 31) ELSE CharAt(AsciiHi, n - 96)

IsUpper(c) == Ord(c) >= 65 /\ Ord(c) <= 90
IsLower(c) == Ord(c) >= 97 /\ Ord(c) <= 122
IsCased(c) == IsUpper(c) \/ IsLower(c)
LowerChar(c) == IF IsUpper(c) THEN Chr(Ord(c) + 32) ELSE c
UpperChar(c) == IF IsLower(c) THEN Chr(Ord(c) - 32) ELSE c

\* str.lower()
RECURSIVE Lower(_)
Lower(s) == IF s = "" THEN "" ELSE LowerChar(Head(s)) \o Lower(Tail(s))

\* str.title(): a cased character is upper-cased when the character before it
\* is not cased (or there is none) and lower-cased otherwise.
RECURSIVE TitleFrom(_, _)
TitleFrom(s, prevCased) ==
    IF s = "" THEN ""
    ELSE LET c == Head(s)
         IN  (IF ~IsCased(c) THEN c
              ELSE IF prevCased THEN LowerChar(c) ELSE UpperChar(c))
             \o TitleFrom(Tail(s), IsCased(c))

Title(s) == TitleFrom(s, FALSE)

\* s.startswith-at-i: t occurs in s at index i (1-based)
OccursAt(t, s, i) == i >= 1 /\ i + Len(t) - 1 <= Len(s)
                     /\ SubSeq(s, i, i + Len(t) - 1) = t

\* t in s
Contains(t, s) == \E i \in 1..(Len(s) + 1) : OccursAt(t, s, i)

\* s.index(t), 1-based; used only when t in s
Index(s, t) == CHOOSE i \in 1..(Len(s) + 1) :
                  /\ OccursAt(t, s, i)
                  /\ \A j \in 1..(i - 1) : ~OccursAt(t, s, j)

\* s.split(sep) for a non-empty separator: the list of parts
RECURSIVE Split(_, _)
Split(s, sep) ==
    IF ~Contains(sep, s) THEN <<s>>
    ELSE LET i == Index(s, sep)
         IN  <<SubSeq(s, 1, i - 1)>> \o Split(SubSeq(s, i + Len(sep), Len(s)), sep)

\* s.replace(old, new) for a non-empty old
RECURSIVE Replace(_, _, _)
Replace(s, old, new) ==
    IF ~Contains(old, s) THEN s
    ELSE LET i == Index(s, old)
         IN  SubSeq(s, 1, i - 1) \o new
             \o Replace(SubSeq(s, i + Len(old), Len(s)), old, new)

\* a > b on str: lexicographic by code point, a proper prefix being smaller
RECURSIVE StrGt(_, _)
StrGt(a, b) ==
    IF a = "" THEN FALSE
    ELSE IF b = "" THEN TRUE
    ELSE IF Head(a) = Head(b) THEN StrGt(Tail(a), Tail(b))
    ELSE Ord(Head(a)) > Ord(Head(b))

Last(seq) == seq[Len(seq)]

(***************************************************************************)
(* JSON values                                                             *)
(***************************************************************************)

Absent == [kind |-> "absent"]
JStr(s) == [kind |-> "str", val |-> s]
JBool(b) == [kind |-> "bool", val |-> b]
JList(l) == [kind |-> "list", val |-> l]
JDict(d) == [kind |-> "dict", val |-> d]

\* Python truthiness of dict.get(key): None, "", [], {} and False are falsy
Truthy(v) ==
    CASE v.kind = "absent" -> FALSE
      [] v.kind = "str"    -> v.val # ""
      [] v.kind = "bool"   -> v.val
      [] v.kind = "list"   -> Len(v.val) > 0
      [] v.kind = "dict"   -> Len(v.val) > 0

IsStr(v, s) == v.kind = "str" /\ v.val = s

\* the keys of a dict, in order
Keys(d) == [i \in 1..Len(d) |-> d[i].k]

HasKey(d, key) == \E i \in 1..Len(d) : d[i].k = key

\* d.get(key): the value, or Absent for None
Get(d, key) == IF HasKey(d, key)
               THEN d[CHOOSE i \in 1..Len(d) : d[i].k = key].v
               ELSE Absent

\* the sequences over S of length at most n: the lists and objects drawn as
\* inputs
SeqsUpTo(S, n) == UNION {[1..k -> S] : k \in 0..n}

\* a JSON object has each key once
DistinctKeys(d) == \A i, j \in 1..Len(d) : d[i].k = d[j].k => i = j

(***************************************************************************)
(* Schema nodes.  A node with fixed keys is a record holding every key the *)
(* program reads, Absent standing for a key the JSON object does not have. *)
(***************************************************************************)

JNode(n) == [kind |-> "node", val |-> n]

\* a property schema: the keys _get_type, _get_desc and _add_object read
Prop(type, anyOf, items, deprecated, longDescription, description) ==
    [type |-> type, anyOf |-> anyOf, items |-> items, deprecated |-> deprecated,
     longDescription |-> longDescription, description |-> description]

\* the value of "items": the keys _get_type reads of it
Items(anyOf, ref) == [anyOf |-> anyOf, ref |-> ref]

\* one alternative of an anyOf list: its "$ref", or Absent
Alt(ref) == [ref |-> ref]

COMMON_NAME_CHANGES == <<[k |-> "Oem", v |-> "OEM"], [k |-> "Id", v |-> "ID"]>>

(***************************************************************************)
(* _get_type                                                               *)
(***************************************************************************)

\* 'count' in name.lower()
NameHasCountCaseSensitive(nm) == Contains("count", nm)
NameHasCount(nm) == Contains("count", Lower(nm))

\* the body of "for kind in tipe", without a break: every non-null member
\* overwrites the result
KindType(kind, res) ==
    IF kind = "null" THEN res
    ELSE IF kind = "integer" \/ kind = "number" THEN "int"
    ELSE IF kind = "boolean" THEN "bool"
    ELSE kind

RECURSIVE TypeListLoopFirst(_, _)
TypeListLoopFirst(tipe, res) ==
    IF tipe = <<>> THEN res
    ELSE IF Head(tipe) = "null" THEN TypeListLoopFirst(Tail(tipe), res)
    ELSE KindType(Head(tipe), res)

RECURSIVE TypeListLoop(_, _)
TypeListLoop(tipe, res) ==
    IF tipe = <<>> THEN res
    ELSE TypeListLoop(Tail(tipe), KindType(Head(tipe), res))

\* kind['$ref'].split('/')[-1]
RefName(ref) == Last(Split(ref, "/"))

\* "for kind in anyof", without a break: every alternative with a "$ref"
\* overwrites the result
RECURSIVE AnyOfLoopFirst(_, _)
AnyOfLoopFirst(anyof, res) ==
    IF anyof = <<>> THEN res
    ELSE IF Head(anyof).ref.kind = "str" THEN RefName(Head(anyof).ref.val)
    ELSE AnyOfLoopFirst(Tail(anyof), res)

RECURSIVE AnyOfLoop(_, _)
AnyOfLoop(anyof, res) ==
    IF anyof = <<>> THEN res
    ELSE AnyOfLoop(Tail(anyof),
                   IF Head(anyof).ref.kind = "str"
                   THEN RefName(Head(anyof).ref.val) ELSE res)

\* obj.get('items', {}).get(key)
ItemsGet(o, key) ==
    IF o.items.kind = "node"
    THEN (IF key = "anyOf" THEN o.items.val.anyOf ELSE o.items.val.ref)
    ELSE Absent

\* anyof = obj.get('anyOf') or obj.get('items', {}).get('anyOf')
AnyOfOf(o) == IF Truthy(o.anyOf) THEN o.anyOf ELSE ItemsGet(o, "anyOf")

\* name[:1] == name[:1].lower() and 'odata' not in name.lower()
IsLinkName(nm) ==
    /\ SubSeq(nm, 1, 1) = Lower(SubSeq(nm, 1, 1))
    /\ ~Contains("odata", Lower(nm))

\* the if / elif chain of _get_type: the type before the array prefix and
\* the json tag are added
BaseType(nm, o) ==
    LET tipe == o.type
        anyof == AnyOfOf(o)
    IN  IF NameHasCount(nm) THEN "int"
        ELSE IF nm = "Status" THEN "common.Status"
        ELSE IF nm = "Identifier" THEN "common.Identifier"
        ELSE IF nm = "Description" THEN "string"
        ELSE IF IsStr(tipe, "object") THEN nm
        ELSE IF tipe.kind = "list" THEN TypeListLoop(tipe.val, "string")
        ELSE IF anyof.kind = "list" THEN AnyOfLoop(anyof.val, "string")
        ELSE IF ItemsGet(o, "ref").kind # "absent" THEN RefName(ItemsGet(o, "ref").val)
        ELSE IF IsLinkName(nm) THEN "common.Link"
        ELSE "string"

\* if tipe == 'array': result = '[]' + result
ArrayWrap(o, res) == IF IsStr(o.type, "array") THEN "[]" \o res ELSE res

\* 'odata' in name or name in COMMON_NAME_CHANGES
NeedsJsonTag(nm) == Contains("odata", nm) \/ HasKey(COMMON_NAME_CHANGES, nm)

\* The returned string is expr when tag is Absent, and otherwise expr, a
\* space and the struct tag json:"<tag>" between grave accents; the record
\* keeps the two parts of '%s `json:"%s"`' % (result, name).
_get_type(nm, o) ==
    [expr |-> ArrayWrap(o, BaseType(nm, o)),
     tag  |-> IF NeedsJsonTag(nm) THEN JStr(nm) ELSE Absent]

(***************************************************************************)
(* _format_comment and _get_desc                                           *)
(***************************************************************************)

COMMON_DESC ==
    <<[k |-> "Description", v |-> "Description provides a description of this resource."],
      [k |-> "Id", v |-> "ID uniquely identifies the resource."],
      [k |-> "Name", v |-> "Name is the name of the resource or array element."],
      [k |-> "@odata.context", v |-> "ODataContext is the odata context."],
      [k |-> "@odata.etag", v |-> "ODataEtag is the odata etag."],
      [k |-> "@odata.id", v |-> "ODataID is the odata identifier."],
      [k |-> "@odata.type", v |-> "ODataType is the odata type."],
      [k |-> "Identifier", v |-> "Identifier shall be unique within the managed ecosystem."]>>

\* the default width of textwrap.wrap
Width == 70

\* chunk.strip() == ''
RECURSIVE IsBlank(_)
IsBlank(s) == s = "" \/ (Head(s) = " " /\ IsBlank(Tail(s)))

\* the length of the longest prefix of s made of spaces (blank) or of
\* anything else (not blank)
RECURSIVE RunLen(_, _)
RunLen(s, blank) ==
    IF s = "" \/ ((Head(s) = " ") # blank) THEN 0
    ELSE 1 + RunLen(Tail(s), blank)

\* TextWrapper._split: the runs of whitespace and the words, in order (the
\* modelled texts hold no tab, newline or hyphen)
RECURSIVE Chunks(_)
Chunks(text) ==
    IF text = "" THEN <<>>
    ELSE LET n == RunLen(text, Head(text) = " ")
         IN  <<SubSeq(text, 1, n)>> \o Chunks(SubSeq(text, n + 1, Len(text)))

RECURSIVE Concat(_)
Concat(strs) == IF strs = <<>> THEN "" ELSE Head(strs) \o Concat(Tail(strs))

\* the inner "while chunks" of _wrap_chunks: chunks move to the current line
\* while they fit
RECURSIVE Fill(_, _, _)
Fill(chunks, cur_line, cur_len) ==
    IF chunks # <<>> /\ cur_len + Len(Head(chunks)) <= Width
    THEN Fill(Tail(chunks), Append(cur_line, Head(chunks)),
              cur_len + Len(Head(chunks)))
    ELSE [chunks |-> chunks, cur_line |-> cur_line, cur_len |-> cur_len]

\* _handle_long_word with break_long_words: a chunk longer than the width
\* gives the line the characters that still fit
HandleLongWord(f) ==
    IF f.chunks # <<>> /\ Len(Head(f.chunks)) > Width
    THEN LET space_left == Width - f.cur_len
             chunk == Head(f.chunks)
         IN  [chunks |-> <<SubSeq(chunk, space_left + 1, Len(chunk))>>
                            \o Tail(f.chunks),
              cur_line |-> Append(f.cur_line, SubSeq(chunk, 1, space_left))]
    ELSE [chunks |-> f.chunks, cur_line |-> f.cur_line]

\* TextWrapper._wrap_chunks: one line per turn of the outer loop
RECURSIVE WrapChunks(_, _)
WrapChunks(chunks, lines) ==
    IF chunks = <<>> THEN lines
    ELSE LET start == IF IsBlank(Head(chunks)) /\ lines # <<>>
                      THEN Tail(chunks) ELSE chunks
             f == HandleLongWord(Fill(start, <<>>, 0))
             cur_line == IF f.cur_line # <<>> /\ IsBlank(Last(f.cur_line))
                         THEN SubSeq(f.cur_line, 1, Len(f.cur_line) - 1)
                         ELSE f.cur_line
         IN  WrapChunks(f.chunks,
                        IF cur_line # <<>> THEN Append(lines, Concat(cur_line))
                        ELSE lines)

\* textwrap.wrap(text)
Wrap(text) == WrapChunks(Chunks(text), <<>>)

\* '\n'.join([('// %s' % l) for l in lines])
RECURSIVE JoinComment(_)
JoinComment(lines) ==
    IF lines = <<>> THEN ""
    ELSE IF Len(lines) = 1 THEN "// " \o Head(lines)
    ELSE "// " \o Head(lines) \o "\n" \o JoinComment(Tail(lines))

\* description[description.index(cutpoint):] after "if cutpoint not in
\* description: cutpoint = ''"
FromCutpoint(description, cutpoint) ==
    IF Contains(cutpoint, description)
    THEN SubSeq(description, Index(description, cutpoint), Len(description))
    ELSE description

_format_comment(nm, description, cutpoint, add) ==
    IF HasKey(COMMON_DESC, nm) THEN "// " \o Get(COMMON_DESC, nm)
    ELSE JoinComment(Wrap(nm \o add \o " " \o FromCutpoint(description, cutpoint)))

\* the defaults cutpoint='used', add=' is'
FormatCommentDefault(nm, description) == _format_comment(nm, description, "used", " is")

_get_desc(o) ==
    IF Truthy(o.longDescription) THEN o.longDescription.val
    ELSE IF o.description.kind = "absent" THEN "" ELSE o.description.val

(***************************************************************************)
(* _add_object and _add_enum                                               *)
(***************************************************************************)

\* one entry of "definitions": the keys main, _add_object, _add_enum and
\* _get_desc read
Def(type, properties, enum, enumLongDescriptions, enumDescriptions, longDescription, description, anyOf) ==
    [type |-> type, properties |-> properties, enum |-> enum,
     enumLongDescriptions |-> enumLongDescriptions,
     enumDescriptions |-> enumDescriptions,
     longDescription |-> longDescription, description |-> description,
     anyOf |-> anyOf]

\* params as main creates it
NewParams(object, package) ==
    [object_name |-> object, classes |-> <<>>, enums |-> <<>>, package |-> package]

\* if prop in ['Name', 'Id']: continue
ExcludedPropNameOnly(prop) == prop = "Name"
ExcludedProp(prop) == prop \in {"Name", "Id"}

\* prawp.get('deprecated')
IsDeprecated(prawp) == Truthy(prawp.deprecated)

\* attr['name']: COMMON_NAME_CHANGES.get(prop, prop), rewritten when the
\* property name holds '@odata'
AttrNameNoTitle(prop) ==
    IF Contains("@odata", prop)
    THEN LET props == Split(prop, ".")
             replacement == IF Contains("count", Last(props)) THEN "" ELSE "OData"
         IN  Replace(props[1], "@odata", replacement) \o Last(props)
    ELSE IF HasKey(COMMON_NAME_CHANGES, prop) THEN Get(COMMON_NAME_CHANGES, prop)
    ELSE prop
AttrName(prop) ==
    IF Contains("@odata", prop)
    THEN LET props == Split(prop, ".")
             replacement == IF Contains("count", Last(props)) THEN "" ELSE "OData"
         IN  Replace(props[1], "@odata", replacement) \o Title(Last(props))
    ELSE IF HasKey(COMMON_NAME_CHANGES, prop) THEN Get(COMMON_NAME_CHANGES, prop)
    ELSE prop

Attr(prop, prawp) ==
    [name |-> AttrName(prop),
     type |-> _get_type(prop, prawp),
     description |-> FormatCommentDefault(prop, _get_desc(prawp))]

\* for prop in obj.get('properties', [])
RECURSIVE AddObjectLoop(_, _)
AddObjectLoop(properties, attrs) ==
    IF properties = <<>> THEN attrs
    ELSE LET prop == Head(properties).k
             prawp == Head(properties).v
         IN  AddObjectLoop(Tail(properties),
                           IF ExcludedProp(prop) \/ IsDeprecated(prawp) THEN attrs
                           ELSE Append(attrs, Attr(prop, prawp)))

\* obj.get('properties', [])
PropertiesOf(o) == IF o.properties.kind = "dict" THEN o.properties.val ELSE <<>>

_add_object(prm, nm, o) ==
    [prm EXCEPT !.classes =
        Append(@, [name |-> nm,
                   description |-> FormatCommentDefault(nm, _get_desc(o)),
                   attrs |-> AddObjectLoop(PropertiesOf(o), <<>>)])]

\* enum.get(key, {}).get(en) for the two description tables
EnumTableGet(table, en) == IF table.kind = "dict" THEN Get(table.val, en) ELSE Absent

\* the description a member's comment is made from
MemberDescShortFirst(o, en) ==
    IF Truthy(EnumTableGet(o.enumDescriptions, en))
    THEN EnumTableGet(o.enumDescriptions, en).val
    ELSE IF EnumTableGet(o.enumLongDescriptions, en).kind = "absent" THEN ""
    ELSE EnumTableGet(o.enumLongDescriptions, en).val
MemberDesc(o, en) ==
    IF Truthy(EnumTableGet(o.enumLongDescriptions, en))
    THEN EnumTableGet(o.enumLongDescriptions, en).val
    ELSE IF EnumTableGet(o.enumDescriptions, en).kind = "absent" THEN ""
    ELSE EnumTableGet(o.enumDescriptions, en).val

Member(nm, o, en) ==
    [name |-> en,
     description |-> _format_comment(en \o nm, MemberDesc(o, en), "shall", "")]

\* enum.get('enum', [])
EnumOf(o) == IF o.enum.kind = "list" THEN o.enum.val ELSE <<>>

_add_enum(prm, nm, o) ==
    [prm EXCEPT !.enums =
        Append(@, [name |-> nm,
                   description |-> FormatCommentDefault(nm, _get_desc(o)),
                   members |-> [i \in 1..Len(EnumOf(o)) |-> Member(nm, o, EnumOf(o)[i])]])]

(***************************************************************************)
(* main                                                                    *)
(***************************************************************************)

REDFISH_SCHEMA_BASE == "http://redfish.dmtf.org/schemas/v1/"
SWORDFISH_SCHEMA_BASE == "http://redfish.dmtf.org/schemas/swordfish/v1/"

\* lines 177-180; argparse admits no other type
BaseUrl(a) ==
    IF a.type = "redfish" THEN REDFISH_SCHEMA_BASE \o a.object \o ".json"
    ELSE SWORDFISH_SCHEMA_BASE \o a.object \o ".json"

\* a parsed document: a JSON object with its "definitions", or Absent
Doc(definitions) == JNode([definitions |-> definitions])

\* an HTTP response: the status code and the body, which is NotJson or a
\* JSON value
NotJson == [kind |-> "invalid"]
Response(status, body) == [status |-> status, body |-> body]

\* base_data.get('definitions', []), iterated and indexed
DefinitionsOrEmpty(doc) ==
    IF doc.val.definitions.kind = "dict" THEN doc.val.definitions.val ELSE <<>>

\* reflink.split('#')[0]
RefUrl(reflink) == Split(reflink, "#")[1]

\* ref.get('$ref', '')
RefLink(ref) == IF ref.ref.kind = "str" THEN ref.ref.val ELSE ""

\* for ref in refs, lines 196-202
RECURSIVE RefLoop(_, _)
RefLoop(refs, u) ==
    IF refs = <<>> THEN u
    ELSE LET reflink == RefLink(Head(refs))
             refurl == RefUrl(reflink)
         IN  RefLoop(Tail(refs),
                     IF Contains("idRef", reflink) THEN u
                     ELSE IF StrGt(refurl, u) THEN refurl
                     ELSE u)

\* base_data['definitions'][classdef].get('anyOf', [])
AnyOfOrEmpty(definition) ==
    IF definition.anyOf.kind = "list" THEN definition.anyOf.val ELSE <<>>

\* lines 193-203: the url after the loop over the stub's definitions
ResolveUrl(u, doc, object) ==
    IF HasKey(DefinitionsOrEmpty(doc), object)
    THEN RefLoop(AnyOfOrEmpty(Get(DefinitionsOrEmpty(doc), object)), u)
    ELSE u

\* line 214: 'target' in properties and 'title' in properties, with
\* properties = definition.get('properties', '')
IsActionBindingEither(definition) ==
    HasKey(PropertiesOf(definition), "target") \/ HasKey(PropertiesOf(definition), "title")
IsActionBinding(definition) ==
    HasKey(PropertiesOf(definition), "target") /\ HasKey(PropertiesOf(definition), "title")

\* line 216: definition.get('enum')
DeclaresEnum(definition) == Truthy(definition.enum)

(***************************************************************************)
(* The steps of main().  A step that raises ends the run: pc = "aborted".  *)
(***************************************************************************)

\* the longest list of definitions a fetched concrete document has
MaxDefs == 2

TargetProp == [k |-> "target", v |-> Prop(JStr("string"), Absent, Absent, Absent, Absent, Absent)]
TitleProp == [k |-> "title", v |-> Prop(JStr("string"), Absent, Absent, Absent, Absent, Absent)]
StatusProp == [k |-> "Status", v |-> Prop(Absent, Absent, Absent, Absent, Absent, Absent)]
CountProp == [k |-> "Count", v |-> Prop(JStr("integer"), Absent, Absent, Absent, Absent, Absent)]
NameProp == [k |-> "Name", v |-> Prop(JStr("string"), Absent, Absent, Absent, Absent, Absent)]

ObjectWith(properties) ==
    Def(JStr("object"), properties, Absent, Absent, Absent, Absent, Absent, Absent)

EnumWith(type, enum, long, short) ==
    Def(type, Absent, enum, long, short, Absent, Absent, Absent)

OnOff == JList(<<"On", "Off">>)
OnShort == [k |-> "On", v |-> JStr("shall mean powered on.")]
OnLong == [k |-> "On", v |-> JStr("This value shall indicate that the resource is powered on.")]
OnLongEmpty == [k |-> "On", v |-> JStr("")]
OffLong == [k |-> "Off", v |-> JStr("The resource is powered off and draws no power at all from the mains.")]

\* the definitions a concrete document is made of
DefPool ==
    {[k |-> "Actions", v |-> ObjectWith(JDict(<<StatusProp>>))],
     [k |-> "Actions", v |-> EnumWith(JStr("string"), OnOff, Absent, Absent)],
     [k |-> "Widget", v |-> ObjectWith(JDict(<<StatusProp, CountProp, NameProp>>))],
     [k |-> "Widget", v |-> ObjectWith(Absent)],
     [k |-> "Reset", v |-> ObjectWith(JDict(<<TargetProp, TitleProp>>))],
     [k |-> "Reset", v |-> ObjectWith(JDict(<<TitleProp, StatusProp, TargetProp>>))],
     [k |-> "Reset", v |-> ObjectWith(JDict(<<TargetProp, CountProp>>))],
     [k |-> "Mode", v |-> Def(JStr("object"), JDict(<<TitleProp>>), OnOff,
                              Absent, Absent, Absent, Absent, Absent)],
     [k |-> "PowerState", v |-> EnumWith(JStr("string"), OnOff, Absent, JDict(<<OnShort>>))],
     [k |-> "PowerState", v |-> EnumWith(Absent, OnOff, JDict(<<OnLong, OffLong>>), JDict(<<OnShort>>))],
     [k |-> "PowerState", v |-> EnumWith(JList(<<"string", "null">>), OnOff,
                                         JDict(<<OnLongEmpty>>), JDict(<<OnShort>>))],
     [k |-> "PowerState", v |-> EnumWith(JStr("string"), JList(<<>>), Absent, Absent)],
     [k |-> "Uuid", v |-> EnumWith(JStr("string"), Absent, Absent, Absent)]}

ObjectDocs == {Doc(Absent)}
              \cup {Doc(JDict(d)) : d \in {x \in SeqsUpTo(DefPool, MaxDefs) : DistinctKeys(x)}}

\* what the second requests.get may answer
ObjectResponses ==
    {Response(200, d) : d \in ObjectDocs}
    \cup {Response(200, NotJson), Response(200, JList(<<>>)),
          Response(404, NotJson), Response(404, Doc(Absent)),
          Response(404, Doc(JDict(<<>>)))}

ThingRef(version) ==
    Alt(JStr("http://redfish.dmtf.org/schemas/v1/Thing." \o version
             \o ".json#/definitions/Thing"))
IdRef == Alt(JStr("http://redfish.dmtf.org/schemas/v1/odata.v4_0_3.json#/definitions/idRef"))

StubDef(anyOf) == Def(Absent, Absent, Absent, Absent, Absent, Absent, Absent, anyOf)

\* what the first requests.get may answer
StubResponses ==
    {Response(200, Doc(JDict(<<[k |-> "Thing",
                                v |-> StubDef(JList(<<IdRef, ThingRef("v1_2_0"),
                                                      ThingRef("v1_10_0")>>))]>>))),
     Response(200, Doc(JDict(<<[k |-> "Other", v |-> StubDef(Absent)]>>))),
     Response(200, NotJson),
     Response(200, JList(<<>>)),
     Response(503, NotJson),
     Response(503, Doc(Absent))}

ArgsSet == [object : {"Thing"}, type : {"redfish", "swordfish"}]

Init ==
    /\ pc = "start"
    /\ args \in ArgsSet
    /\ url = ""
    /\ data = Absent
    /\ base_data = Absent
    /\ object_data = Absent
    /\ pos = 0
    /\ params = Absent
    /\ rendered = Absent
    /\ faults = {}
    /\ name = "" /\ obj = Absent /\ result = Absent

\* lines 177-184
BuildUrl ==
    /\ pc = "start"
    /\ url' = BaseUrl(args)
    /\ pc' = "get_base"
    /\ UNCHANGED <<args, data, base_data, object_data, pos, params, rendered,
                   faults, name, obj, result>>

\* a non-2xx status is a fault of the fetch
StatusFaults(r) == IF r.status >= 200 /\ r.status < 300 THEN {} ELSE {"status"}

\* line 186: requests.get answers; the status is not looked at
GetBase ==
    /\ pc = "get_base"
    /\ \E r \in StubResponses :
          /\ data' = r
          /\ faults' = faults \cup StatusFaults(r)
    /\ pc' = "parse_base"
    /\ UNCHANGED <<args, url, base_data, object_data, pos, params, rendered,
                   name, obj, result>>

\* line 186: requests.get raises (no connection), which nothing catches
GetBaseRaises ==
    /\ pc = "get_base"
    /\ faults' = faults \cup {"network"}
    /\ pc' = "aborted"
    /\ UNCHANGED <<args, url, data, base_data, object_data, pos, params,
                   rendered, name, obj, result>>

\* lines 187-191: data.json(); on an exception the error is logged and main
\* returns
ParseBase ==
    /\ pc = "parse_base"
    /\ IF data.body = NotJson
       THEN /\ faults' = faults \cup {"json"}
            /\ pc' = "aborted"
            /\ UNCHANGED base_data
       ELSE /\ base_data' = data.body
            /\ pc' = "resolve"
            /\ UNCHANGED faults
    /\ UNCHANGED <<args, url, data, object_data, pos, params, rendered,
                   name, obj, result>>

\* lines 193-203; base_data.get raises when the document is no JSON object
Resolve ==
    /\ pc = "resolve"
    /\ IF base_data.kind = "node"
       THEN /\ url' = ResolveUrl(url, base_data, args.object)
            /\ pc' = "get_object"
       ELSE /\ pc' = "aborted"
            /\ UNCHANGED url
    /\ UNCHANGED <<args, data, base_data, object_data, pos, params, rendered,
                   faults, name, obj, result>>

\* lines 205-208: requests.get(url).json(), params, and the definitions the
\* loop runs over; an unparsable body raises, and so does a document that
\* is no JSON object or has no "definitions"
GetObject ==
    /\ pc = "get_object"
    /\ \E r \in ObjectResponses :
          IF r.body = NotJson
          THEN /\ faults' = faults \cup StatusFaults(r) \cup {"json"}
               /\ pc' = "aborted"
               /\ UNCHANGED <<object_data, params, pos>>
          ELSE /\ faults' = faults \cup StatusFaults(r)
               /\ object_data' = r.body
               /\ params' = NewParams(args.object, args.type)
               /\ IF r.body.kind = "node" /\ r.body.val.definitions.kind = "dict"
                  THEN pc' = "classify" /\ pos' = 1
                  ELSE pc' = "aborted" /\ UNCHANGED pos
    /\ UNCHANGED <<args, url, data, base_data, rendered, name, obj, result>>

\* line 205: requests.get raises
GetObjectRaises ==
    /\ pc = "get_object"
    /\ faults' = faults \cup {"network"}
    /\ pc' = "aborted"
    /\ UNCHANGED <<args, url, data, base_data, object_data, pos, params,
                   rendered, name, obj, result>>

Definitions == object_data.val.definitions.val

InLoop == pc = "classify" /\ pos <= Len(Definitions)

LoopVarsUnchanged ==
    UNCHANGED <<args, url, data, base_data, object_data, rendered, faults,
                name, obj, result>>

\* lines 209-210
SkipActions ==
    /\ InLoop
    /\ Definitions[pos].k = "Actions"
    /\ pos' = pos + 1
    /\ UNCHANGED <<pc, params>>
    /\ LoopVarsUnchanged

\* lines 212-215
ClassifyObject ==
    /\ InLoop
    /\ Definitions[pos].k # "Actions"
    /\ IsStr(Definitions[pos].v.type, "object")
    /\ params' = IF ~IsActionBinding(Definitions[pos].v)
                 THEN _add_object(params, Definitions[pos].k, Definitions[pos].v)
                 ELSE params
    /\ pos' = pos + 1
    /\ UNCHANGED pc
    /\ LoopVarsUnchanged

\* lines 216-217
ClassifyEnum ==
    /\ InLoop
    /\ Definitions[pos].k # "Actions"
    /\ ~IsStr(Definitions[pos].v.type, "object")
    /\ DeclaresEnum(Definitions[pos].v)
    /\ params' = _add_enum(params, Definitions[pos].k, Definitions[pos].v)
    /\ pos' = pos + 1
    /\ UNCHANGED pc
    /\ LoopVarsUnchanged

\* lines 218-219
SkipOther ==
    /\ InLoop
    /\ Definitions[pos].k # "Actions"
    /\ ~IsStr(Definitions[pos].v.type, "object")
    /\ ~DeclaresEnum(Definitions[pos].v)
    /\ pos' = pos + 1
    /\ UNCHANGED <<pc, params>>
    /\ LoopVarsUnchanged

\* lines 221-224: the template file is read, or io.open raises
OpenTemplate ==
    /\ pc = "classify" /\ pos > Len(Definitions)
    /\ \E found \in BOOLEAN : pc' = IF found THEN "render" ELSE "aborted"
    /\ UNCHANGED <<args, url, data, base_data, object_data, pos, params,
                   rendered, faults, name, obj, result>>

\* line 225
Render ==
    /\ pc = "render"
    /\ rendered' = params
    /\ pc' = "done"
    /\ UNCHANGED <<args, url, data, base_data, object_data, pos, params,
                   faults, name, obj, result>>

Next ==
    \/ BuildUrl
    \/ GetBase
    \/ GetBaseRaises
    \/ ParseBase
    \/ Resolve
    \/ GetObject
    \/ GetObjectRaises
    \/ SkipActions
    \/ ClassifyObject
    \/ ClassifyEnum
    \/ SkipOther
    \/ OpenTemplate
    \/ Render

Spec == Init /\ [][Next]_vars

(***************************************************************************)
(* The choice of the concrete document's url on bounded stub documents     *)
(***************************************************************************)

\* the longest anyOf list a stub definition drawn here has
MaxRefs == 2

RefPool ==
    {Alt(Absent), IdRef, ThingRef("v1_2_0"), ThingRef("v1_10_0"),
     Alt(JStr("/redfish/v1/JsonSchemas/Thing.v1_3_0.json#/definitions/Thing"))}

StubDocs ==
    {Doc(Absent),
     Doc(JDict(<<[k |-> "Other", v |-> StubDef(JList(<<ThingRef("v1_2_0")>>))]>>)),
     Doc(JDict(<<[k |-> "Thing", v |-> StubDef(Absent)]>>))}
    \cup {Doc(JDict(<<[k |-> "Thing", v |-> StubDef(JList(refs))]>>)) :
             refs \in SeqsUpTo(RefPool, MaxRefs)}
    \cup {Doc(JDict(<<[k |-> "Other", v |-> StubDef(JList(<<ThingRef("v1_10_0")>>))],
                      [k |-> "Thing", v |-> StubDef(JList(refs))]>>)) :
             refs \in SeqsUpTo(RefPool, MaxRefs)}

ResolveInit ==
    /\ pc = "start"
    /\ args \in ArgsSet
    /\ base_data \in StubDocs
    /\ url = ""
    /\ data = Absent
    /\ object_data = Absent
    /\ pos = 0
    /\ params = Absent
    /\ rendered = Absent
    /\ faults = {}
    /\ name = "" /\ obj = Absent /\ result = Absent

\* lines 177-184, then data.json() having given base_data
BuildUrlParsed ==
    /\ pc = "start"
    /\ url' = BaseUrl(args)
    /\ pc' = "resolve"
    /\ UNCHANGED <<args, data, base_data, object_data, pos, params, rendered,
                   faults, name, obj, result>>

ResolveNext == BuildUrlParsed \/ Resolve

SpecResolve == ResolveInit /\ [][ResolveNext]_vars

(***************************************************************************)
(* _get_type on bounded inputs                                             *)
(***************************************************************************)

\* the longest "type" union list and the longest anyOf list drawn
MaxTypeLen == 2
MaxAlts == 2

TypeTokens == {"null", "integer", "number", "boolean", "string"}

StatusRef == "http://redfish.dmtf.org/schemas/v1/Resource.json#/definitions/Status"
FooRef == "#/definitions/Foo"

AltPool == {Alt(Absent), Alt(JStr(StatusRef)), Alt(JStr(FooRef))}

TypeValues ==
    {Absent, JStr("object"), JStr("array"), JStr("string")}
    \cup {JList(l) : l \in SeqsUpTo(TypeTokens, MaxTypeLen)}

AnyOfValues == {Absent} \cup {JList(l) : l \in SeqsUpTo(AltPool, MaxAlts)}

ItemsValues ==
    {Absent,
     JNode(Items(Absent, Absent)),
     JNode(Items(Absent, JStr(FooRef))),
     JNode(Items(JList(<<Alt(JStr("#/definitions/Bar"))>>), Absent)),
     JNode(Items(JList(<<Alt(JStr("#/definitions/Bar")), Alt(JStr(StatusRef))>>),
                 JStr(FooRef)))}

TypeNames == {"Count", "AccountTypes", "Members@odata.count", "Status",
              "Identifier", "Description", "Oem", "Capacity", "links",
              "@odata.id", "odataLink"}

TypeProps == {Prop(t, a, i, Absent, Absent, Absent) :
                 t \in TypeValues, a \in AnyOfValues, i \in ItemsValues}

\* the variables of main() stay unset while one function is applied
NoPipeline ==
    /\ args = Absent /\ url = "" /\ data = Absent /\ base_data = Absent
    /\ object_data = Absent /\ pos = 0 /\ rendered = Absent /\ faults = {}

TypeInit ==
    /\ pc = "get_type"
    /\ name \in TypeNames
    /\ obj \in TypeProps
    /\ result = Absent
    /\ params = Absent
    /\ NoPipeline

GetType ==
    /\ pc = "get_type"
    /\ result' = _get_type(name, obj)
    /\ pc' = "got_type"
    /\ UNCHANGED <<args, url, data, base_data, object_data, pos, params,
                   rendered, faults, name, obj>>

TypeNext == GetType

SpecType == TypeInit /\ [][TypeNext]_vars

(***************************************************************************)
(* _add_object on bounded inputs                                           *)
(***************************************************************************)

\* the most properties an object definition drawn here has
MaxProps == 3

DeprecatedText == "This property has been deprecated in favor of CapacityBytes."

IntProp == Prop(JStr("integer"), Absent, Absent, Absent, Absent, Absent)
StrProp == Prop(JStr("string"), Absent, Absent, Absent, Absent, Absent)
OemProp == Prop(JStr("object"), Absent, Absent, Absent, Absent,
                JStr("The OEM extension property."))
CapacityProp(deprecated) ==
    Prop(JList(<<"integer", "null">>), Absent, Absent, deprecated,
         JStr("This property shall contain the capacity used by the volume."),
         JStr("The capacity."))

\* properties by name; Capacity comes not deprecated, with "deprecated":
\* false, and deprecated
PropPool ==
    {[k |-> "Name", v |-> StrProp],
     [k |-> "Id", v |-> StrProp],
     [k |-> "Status", v |-> Prop(Absent, Absent, Absent, Absent, Absent, Absent)],
     [k |-> "Count", v |-> IntProp],
     [k |-> "Oem", v |-> OemProp],
     [k |-> "OEM", v |-> OemProp],
     [k |-> "@odata.count", v |-> IntProp],
     [k |-> "@odata.nextLink", v |-> StrProp],
     [k |-> "Members@odata.count", v |-> IntProp],
     [k |-> "Capacity", v |-> CapacityProp(Absent)],
     [k |-> "Capacity", v |-> CapacityProp(JBool(FALSE))],
     [k |-> "Capacity", v |-> CapacityProp(JStr(DeprecatedText))]}

PropertyDicts == {d \in SeqsUpTo(PropPool, MaxProps) : DistinctKeys(d)}

ObjectDef(properties) ==
    Def(JStr("object"), properties, Absent, Absent, Absent, Absent,
        JStr("The Widget schema."), Absent)

ObjectDefs == {ObjectDef(Absent)} \cup {ObjectDef(JDict(d)) : d \in PropertyDicts}

ObjectInit ==
    /\ pc = "add_object"
    /\ name = "Widget"
    /\ obj \in ObjectDefs
    /\ params = NewParams("Widget", "redfish")
    /\ result = Absent
    /\ NoPipeline

AddObject ==
    /\ pc = "add_object"
    /\ params' = _add_object(params, name, obj)
    /\ pc' = "added_object"
    /\ UNCHANGED <<args, url, data, base_data, object_data, pos, rendered,
                   faults, name, obj, result>>

ObjectNext == AddObject

SpecObject == ObjectInit /\ [][ObjectNext]_vars

(***************************************************************************)
(* Claims about _get_type (checked under SpecType)                         *)
(***************************************************************************)

\* the Go type of one member of a "type" union list
GoTypeOf(kind) ==
    IF kind = "integer" \/ kind = "number" THEN "int"
    ELSE IF kind = "boolean" THEN "bool"
    ELSE kind

\* rules 1-4 of the resolution order do not match the name
NoNameRule(nm) ==
    /\ ~Contains("count", Lower(nm))
    /\ nm \notin {"Status", "Identifier", "Description"}

NonNullAt(l) == {i \in 1..Len(l) : l[i] # "null"}
RefAt(l) == {i \in 1..Len(l) : l[i].ref.kind = "str"}
Min(S) == CHOOSE i \in S : \A j \in S : i <= j
Max(S) == CHOOSE i \in S : \A j \in S : i >= j

\* the text the array post-processing puts before the type
ArrayPrefix(o) == IF o.type.kind = "str" /\ o.type.val = "array" THEN "[]" ELSE ""

\* C1 as stated: for every property name containing "count" (case-insensitive)
\* and every property schema, _get_type returns the integer scalar type "int".
C1_CountIsInt ==
    (pc = "got_type" /\ Contains("count", Lower(name)))
        => result = [expr |-> "int", tag |-> Absent]

\* C1 amended: for every property name containing "count" (case-insensitive)
\* and every property schema, the type is int: the returned expression is
\* "int", with "[]" before it when the declared type is "array", and with the
\* json tag of the raw name after it when the name contains "odata".
C1_CountIsIntBase ==
    (pc = "got_type" /\ Contains("count", Lower(name)))
        => /\ result.expr = ArrayPrefix(obj) \o "int"
           /\ result.tag = (IF Contains("odata", name) THEN JStr(name) ELSE Absent)

C1_Witness ==
    /\ pc = "got_type"
    /\ name = "AccountTypes"
    /\ obj.type.kind = "list" /\ obj.type.val = <<"string", "null">>
    /\ obj.anyOf.kind = "list"
    /\ result.expr = "int"

\* C9 as stated: when rules 1-4 do not match the name and the declared type
\* is a union list, the type is the one of the FIRST non-null member of the
\* list, whatever follows it.
C9_FirstNonNull ==
    (pc = "got_type" /\ NoNameRule(name) /\ obj.type.kind = "list"
       /\ NonNullAt(obj.type.val) # {})
        => result.expr = GoTypeOf(obj.type.val[Min(NonNullAt(obj.type.val))])

\* C9 amended: when rules 1-4 do not match the name and the declared type is
\* a union list, the type is the one of the LAST non-null member of the list
\* (integer or number -> int, boolean -> bool, anything else -> the token).
C9_LastNonNull ==
    (pc = "got_type" /\ NoNameRule(name) /\ obj.type.kind = "list"
       /\ NonNullAt(obj.type.val) # {})
        => result.expr = GoTypeOf(obj.type.val[Max(NonNullAt(obj.type.val))])

C9_Witness ==
    /\ pc = "got_type"
    /\ name = "Capacity"
    /\ obj.type.kind = "list" /\ obj.type.val = <<"integer", "string">>
    /\ result.expr = "string"

\* rules 1-6 do not match: no name rule, the type neither "object" nor a list
NoRule1To6(nm, o) ==
    /\ NoNameRule(nm)
    /\ ~(o.type.kind = "str" /\ o.type.val = "object")
    /\ o.type.kind # "list"

\* the anyOf list the property declares: its own when it has alternatives,
\* otherwise the one inside items
DeclaredAnyOf(o) ==
    IF o.anyOf.kind = "list" /\ o.anyOf.val # <<>> THEN o.anyOf
    ELSE IF o.items.kind = "node" THEN o.items.val.anyOf
    ELSE Absent

\* C10 as stated: when rules 1-6 do not match and the property declares anyOf
\* (itself or inside items), the type name is the final path segment of the
\* FIRST alternative that carries a $ref.
C10_FirstRef ==
    (pc = "got_type" /\ NoRule1To6(name, obj)
       /\ DeclaredAnyOf(obj).kind = "list" /\ RefAt(DeclaredAnyOf(obj).val) # {})
        => LET alts == DeclaredAnyOf(obj).val
           IN  result.expr =
                 ArrayPrefix(obj) \o Last(Split(alts[Min(RefAt(alts))].ref.val, "/"))

\* C10 amended: when rules 1-6 do not match and the property declares anyOf
\* (itself or inside items), the type name is the final path segment of the
\* LAST alternative that carries a $ref.
C10_LastRef ==
    (pc = "got_type" /\ NoRule1To6(name, obj)
       /\ DeclaredAnyOf(obj).kind = "list" /\ RefAt(DeclaredAnyOf(obj).val) # {})
        => LET alts == DeclaredAnyOf(obj).val
           IN  result.expr =
                 ArrayPrefix(obj) \o Last(Split(alts[Max(RefAt(alts))].ref.val, "/"))

C10_Witness ==
    /\ pc = "got_type"
    /\ name = "Capacity"
    /\ obj.type = JStr("array")
    /\ obj.anyOf = Absent
    /\ obj.items.kind = "node" /\ obj.items.val.anyOf.kind = "list"
    /\ Len(obj.items.val.anyOf.val) = 2
    /\ result.expr = "[]Status"

(***************************************************************************)
(* Claims about _add_object (checked under SpecObject)                     *)
(***************************************************************************)

\* the class descriptor _add_object appended
NewClass == params.classes[Len(params.classes)]

\* a property is marked deprecated: it has a "deprecated" value other than
\* false or the empty string
MarkedDeprecated(prawp) ==
    CASE prawp.deprecated.kind = "absent" -> FALSE
      [] prawp.deprecated.kind = "bool"   -> prawp.deprecated.val
      [] prawp.deprecated.kind = "str"    -> prawp.deprecated.val # ""

KeptProp(p) == p.k # "Name" /\ p.k # "Id" /\ ~MarkedDeprecated(p.v)

\* the properties of the definition, in declaration order, without Name, Id
\* and the deprecated ones
KeptProps(o) ==
    IF o.properties.kind = "dict" THEN SelectSeq(o.properties.val, KeptProp)
    ELSE <<>>

\* C3: the attrs of a ClassDescriptor correspond one-to-one, in declaration
\* order, to the definition's properties without "Name", "Id" and every
\* property marked deprecated: nothing else is dropped, added or reordered.
C3_AttrsAreKeptProps ==
    pc = "added_object"
        => /\ Len(params.classes) = 1
           /\ NewClass.name = name
           /\ Len(NewClass.attrs) = Len(KeptProps(obj))
           /\ \A i \in 1..Len(KeptProps(obj)) :
                 /\ NewClass.attrs[i].type =
                       _get_type(KeptProps(obj)[i].k, KeptProps(obj)[i].v)
                 /\ NewClass.attrs[i].description =
                       FormatCommentDefault(KeptProps(obj)[i].k,
                                            _get_desc(KeptProps(obj)[i].v))
                 /\ NewClass.attrs[i].name = AttrName(KeptProps(obj)[i].k)

\* the Widget document of the specification: Status, Count, Name
C3_Witness ==
    /\ pc = "added_object"
    /\ obj.properties.kind = "dict"
    /\ Keys(obj.properties.val) = <<"Status", "Count", "Name">>
    /\ Len(NewClass.attrs) = 2
    /\ NewClass.attrs[1].name = "Status"
    /\ NewClass.attrs[1].type.expr = "common.Status"
    /\ NewClass.attrs[2].name = "Count"
    /\ NewClass.attrs[2].type.expr = "int"

\* C5: within a ClassDescriptor the normalized attribute names are pairwise
\* distinct.
C5_AttrNamesDistinct ==
    pc = "added_object"
        => \A i, j \in 1..Len(NewClass.attrs) :
              NewClass.attrs[i].name = NewClass.attrs[j].name => i = j

\* title-casing as the claim's example has it: "nextLink" gives "NextLink",
\* the first letter upper-cased and the rest kept
ClaimTitle(s) == IF s = "" THEN "" ELSE UpperChar(Head(s)) \o Tail(s)

\* the identifier the claim gives a name holding "@odata"
ClaimODataName(prop) ==
    LET last == Last(Split(prop, "."))
    IN  (IF Contains("count", last) THEN "" ELSE "OData") \o ClaimTitle(last)

\* C6 as stated: a property name holding "@odata" is normalized to the prefix
\* (empty when the last "."-segment contains "count", otherwise "OData")
\* followed by the title-cased last segment: "@odata.nextLink" gives
\* "ODataNextLink" and "@odata.count" gives "Count".
C6_ODataName ==
    pc = "added_object"
        => \A i \in 1..Len(KeptProps(obj)) :
              Contains("@odata", KeptProps(obj)[i].k)
                 => NewClass.attrs[i].name = ClaimODataName(KeptProps(obj)[i].k)

\* t is s title-cased the way str.title() does it: a letter is upper case
\* when no letter stands before it and lower case otherwise; anything else
\* is kept
IsPyTitleOf(t, s) ==
    /\ Len(t) = Len(s)
    /\ \A i \in 1..Len(s) :
          LET c == CharAt(s, i)
              afterLetter == i > 1 /\ IsCased(CharAt(s, i - 1))
          IN  CharAt(t, i) = IF ~IsCased(c) THEN c
                             ELSE IF afterLetter THEN LowerChar(c)
                             ELSE UpperChar(c)

\* C6 amended: a property name holding "@odata" is split on "."; the result
\* is the first segment with "@odata" replaced by the prefix (empty when the
\* last segment contains "count", otherwise "OData") followed by the last
\* segment title-cased as str.title() does (letters after a letter become
\* lower case): "@odata.nextLink" gives "ODataNextlink", "@odata.count"
\* gives "Count" and "Members@odata.count" gives "MembersCount".
C6_ODataNameTitle ==
    pc = "added_object"
        => \A i \in 1..Len(KeptProps(obj)) :
              LET prop == KeptProps(obj)[i].k
                  segs == Split(prop, ".")
                  prefix == IF Contains("count", Last(segs)) THEN "" ELSE "OData"
                  first == Replace(segs[1], "@odata", prefix)
                  nm == NewClass.attrs[i].name
              IN  Contains("@odata", prop)
                     => /\ SubSeq(nm, 1, Len(first)) = first
                        /\ IsPyTitleOf(SubSeq(nm, Len(first) + 1, Len(nm)), Last(segs))
                        /\ prop = "@odata.nextLink" => nm = "ODataNextlink"
                        /\ prop = "@odata.count" => nm = "Count"
                        /\ prop = "Members@odata.count" => nm = "MembersCount"

C6_Witness ==
    /\ pc = "added_object"
    /\ obj.properties.kind = "dict"
    /\ Len(NewClass.attrs) = 2
    /\ Keys(obj.properties.val) = <<"@odata.nextLink", "@odata.count">>
    /\ NewClass.attrs[1].name = "ODataNextlink"
    /\ NewClass.attrs[2].name = "Count"

(***************************************************************************)
(* Claims about the choice of the url (checked under SpecResolve)          *)
(***************************************************************************)

\* the reference urls of the alternatives of the definition named as the
\* object whose $ref does not hold "idRef"
QualifyingRefUrls ==
    LET defs == IF base_data.val.definitions.kind = "dict"
                THEN base_data.val.definitions.val ELSE <<>>
        at == {i \in 1..Len(defs) : defs[i].k = args.object}
        alts == IF at = {} \/ defs[Min(at)].v.anyOf.kind # "list" THEN <<>>
                ELSE defs[Min(at)].v.anyOf.val
    IN  {Split(alts[i].ref.val, "#")[1] :
            i \in {j \in 1..Len(alts) : /\ alts[j].ref.kind = "str"
                                        /\ ~Contains("idRef", alts[j].ref.val)}}

\* C2: when the definition named objectName has an anyOf alternative whose
\* $ref does not contain "idRef", the url is the lexicographically greatest
\* reference url among those alternatives; the base url is returned only
\* when no alternative qualifies.
C2_GreatestRefUrl ==
    pc = "get_object"
        => IF QualifyingRefUrls # {}
           THEN /\ url \in QualifyingRefUrls
                /\ \A r \in QualifyingRefUrls : ~StrGt(r, url)
           ELSE url = BaseUrl(args)

(***************************************************************************)
(* Claims about main (checked under Spec)                                  *)
(***************************************************************************)

Classifying == pc \in {"classify", "render", "done"}

\* the definitions the loop has gone through
Classified == SubSeq(Definitions, 1, pos - 1)

\* an object-typed definition that is neither named "Actions" nor has both
\* "target" and "title" among its properties
IsClassDef(d) ==
    /\ d.k # "Actions"
    /\ d.v.type.kind = "str" /\ d.v.type.val = "object"
    /\ ~(/\ d.v.properties.kind = "dict"
         /\ \E i \in 1..Len(d.v.properties.val) : d.v.properties.val[i].k = "target"
         /\ \E i \in 1..Len(d.v.properties.val) : d.v.properties.val[i].k = "title")

NamesOf(descriptors) == [i \in 1..Len(descriptors) |-> descriptors[i].name]

\* C4: the model holds no ClassDescriptor and no EnumDescriptor for a
\* definition named "Actions" and no ClassDescriptor for an object-typed
\* definition with both "target" and "title"; every other object-typed
\* definition yields exactly one ClassDescriptor, in document order.
C4_ClassesAreObjectDefs ==
    Classifying
        => /\ NamesOf(params.classes) = Keys(SelectSeq(Classified, IsClassDef))
           /\ \A i \in 1..Len(params.enums) : params.enums[i].name # "Actions"
           /\ pc = "done" => rendered = params

C4_Witness ==
    /\ pc = "done"
    /\ Len(Definitions) = 2
    /\ Definitions[1].k = "Reset" /\ ~IsClassDef(Definitions[1])
    /\ Definitions[2].k = "Widget"
    /\ NamesOf(rendered.classes) = <<"Widget">>

\* a definition that is not object-typed and not named "Actions"
IsNonObjectDef(d) ==
    /\ d.k # "Actions"
    /\ ~(d.v.type.kind = "str" /\ d.v.type.val = "object")

\* the value a description table has for a literal, Absent when it has none
TableEntry(table, en) ==
    IF table.kind = "dict" /\ \E i \in 1..Len(table.val) : table.val[i].k = en
    THEN table.val[CHOOSE i \in 1..Len(table.val) : table.val[i].k = en].v
    ELSE Absent

\* the description chosen for a literal: the long-form one when one exists
\* (nonEmpty FALSE) or when a non-empty one exists (nonEmpty TRUE),
\* otherwise the short one, otherwise the empty string
Chosen(o, en, nonEmpty) ==
    IF /\ TableEntry(o.enumLongDescriptions, en).kind = "str"
       /\ nonEmpty => TableEntry(o.enumLongDescriptions, en).val # ""
    THEN TableEntry(o.enumLongDescriptions, en).val
    ELSE IF TableEntry(o.enumDescriptions, en).kind = "str"
    THEN TableEntry(o.enumDescriptions, en).val
    ELSE ""

\* the members of the EnumDescriptor of definition d
MembersOf(d, nonEmpty) ==
    [i \in 1..Len(d.v.enum.val) |->
        [name |-> d.v.enum.val[i],
         description |-> _format_comment(d.v.enum.val[i] \o d.k,
                                         Chosen(d.v, d.v.enum.val[i], nonEmpty),
                                         "shall", "")]]

DeclaresEnumList(d) == IsNonObjectDef(d) /\ d.v.enum.kind = "list"
DeclaresNonEmptyEnumList(d) == DeclaresEnumList(d) /\ d.v.enum.val # <<>>

\* C7 as stated: every non-object definition (other than "Actions") that
\* declares an enum list yields exactly one EnumDescriptor, whose members are
\* the literals in schema order, each named by the literal verbatim and
\* described (cutpoint "shall", empty prefix, name <value><enumName>) from
\* the long-form description when one exists, otherwise the short one,
\* otherwise the empty string.
C7_EnumDescriptors ==
    Classifying
        => LET expected == SelectSeq(Classified, DeclaresEnumList)
           IN  /\ NamesOf(params.enums) = Keys(expected)
               /\ \A i \in 1..Len(expected) :
                     params.enums[i].members = MembersOf(expected[i], FALSE)

\* C7 amended: every non-object definition (other than "Actions") that
\* declares a non-empty enum list yields exactly one EnumDescriptor, whose
\* members are the literals in schema order, each named by the literal
\* verbatim and described (cutpoint "shall", empty prefix, name
\* <value><enumName>) from the long-form description when a non-empty one
\* exists, otherwise the short one, otherwise the empty string.
C7_NonEmptyEnumDescriptors ==
    Classifying
        => LET expected == SelectSeq(Classified, DeclaresNonEmptyEnumList)
           IN  /\ NamesOf(params.enums) = Keys(expected)
               /\ \A i \in 1..Len(expected) :
                     params.enums[i].members = MembersOf(expected[i], TRUE)

C7_Witness ==
    /\ pc = "done"
    /\ Len(Definitions) = 1
    /\ Definitions[1].k = "PowerState"
    /\ Definitions[1].v.enumLongDescriptions.kind = "dict"
    /\ Len(Definitions[1].v.enumLongDescriptions.val) = 2
    /\ Len(rendered.enums) = 1
    /\ NamesOf(rendered.enums[1].members) = <<"On", "Off">>
    /\ rendered.enums[1].members[1].description =
          "// OnPowerState shall indicate that the resource is powered on."
    /\ rendered.enums[1].members[2].description =
          "// OffPowerState The resource is powered off and draws no power at all\n// from the mains."

\* C8: whenever a fetch fails (no connection, or a non-2xx response) or a
\* response body is not valid JSON, the run aborts and the renderer is never
\* invoked.
C8_NoRenderAfterFault == rendered # Absent => faults = {}

====
